---- MODULE Spec2Model ----
(***************************************************************************)
(* State-machine model of src/script.js: the portfolio page's data load,   *)
(* project pagination, gallery modal and image lightbox.                   *)
(*                                                                         *)
(* Every event handler runs to completion (single UI thread), so each      *)
(* handler is one action.  loadData is an async function: it is split at   *)
(* its await points, and UI events may be handled between them.            *)
(* Array indices are 0-based as in the source; a JavaScript array a is a   *)
(* TLA+ sequence s with a[i] = s[i + 1].                                   *)
(*                                                                         *)
(* A listener is enabled whenever its element exists: the listeners carry  *)
(* no guard of their own except the keydown listener's test of the         *)
(* lightbox's hidden class.  The collaborating markup is taken to hold     *)
(* both overlays hidden and all grids empty before the script runs.        *)
(***************************************************************************)
EXTENDS Integers, Sequences, FiniteSets

\* ------------------------------------------------------------- bounds
MaxProjects == 13      \* largest project.json catalog served
MaxHero == 3           \* largest heroImages array served
MaxArtworks == 2       \* largest artworks array served
MaxClicks == 2         \* load-more activations explored

\* ---------------------------------------------------------- constants
projectsPerLoad == 6           \* const projectsPerLoad = 6
InitialDisplayedCount == 6     \* let displayedProjectCount = 6

VARIABLES
  pc,                     \* position of loadData: fetch, art, project, links, done, failed
  artData,                \* let artData = { heroImages: [], artworks: [] }
  projectData,            \* let projectData = { projects: [] }
  displayedProjectCount,  \* let displayedProjectCount = 6
  loadMoreClicks,         \* number of load-more click events handled so far
  codeGrid,               \* children of #codeGrid: the project of each card
  loadMoreDisplay,        \* #loadMoreProjects style.display: "" (markup), "none", "block"
  featuredArtGrid,        \* children of #featuredArtGrid
  linksUpdated,           \* updateLinks has rewritten the anchors
  heroAnimated,           \* animateHero has run
  galleryHidden,          \* #galleryModal carries class hidden
  fullGalleryGrid,        \* children of #fullGalleryGrid with their click closures
  imageModalHidden,       \* #imageModal carries class hidden
  currentLightboxIndex,   \* let currentLightboxIndex = 0
  currentLightboxSource,  \* let currentLightboxSource = []
  thumbnailStrip,         \* children of #thumbnailStrip
  modalImgSrc,            \* #modalImg src: <<>> (markup) or <<image>>
  bodyOverflow,           \* document.body.style.overflow: "" (markup), "hidden", "auto"
  lastEvent               \* history: the listener or loadData step that ran last

loadVars == <<pc, artData, projectData, featuredArtGrid, linksUpdated, heroAnimated>>
pageVars == <<displayedProjectCount, loadMoreClicks, codeGrid, loadMoreDisplay>>
galleryVars == <<galleryHidden, fullGalleryGrid>>
lightboxVars == <<imageModalHidden, currentLightboxIndex, currentLightboxSource,
                  thumbnailStrip, modalImgSrc>>
\* The program's state, and the state with the history variable.
progVars == <<loadVars, pageVars, galleryVars, lightboxVars, bodyOverflow>>
vars == <<progVars, lastEvent>>

\* ------------------------------------------------------------ helpers
Min(a, b) == IF a < b THEN a ELSE b

\* JavaScript a % b for b > 0: the result takes the sign of the dividend.
JsRem(a, b) == IF a >= 0 THEN a % b ELSE 0 - ((0 - a) % b)

\* Array.prototype.slice(0, end) for end >= 0.
Slice0(s, end) == SubSeq(s, 1, Min(end, Len(s)))

\* The documents the server may hold.  Project i of project.json is i; the
\* i-th hero image and the j-th artwork are distinct art items.
HeroItem(i) == [image |-> <<"hero", i>>]
ArtworkItem(j) == [image |-> <<"art", j>>]
ProjectJson(n) == [projects |-> [i \in 1..n |-> i]]
ArtJson(h, a) == [heroImages |-> [i \in 1..h |-> HeroItem(i)],
                  artworks |-> [j \in 1..a |-> ArtworkItem(j)]]

\* The art.json documents explored, as <<number of hero images, number of
\* artworks>>: empty, single-item, two-item and the largest catalog.
ArtSizes == {<<0, 0>>, <<1, 0>>, <<0, 1>>, <<1, 1>>, <<MaxHero, MaxArtworks>>}

\* ------------------------------------------------ project renderer
\* Mutant of AppendsCard: an off-by-one lower bound skips the first new card.
AppendsCard_OffByOne(initial, index, count) ==
  initial \/ index > count - projectsPerLoad

\* The condition of the forEach body in loadCodeProjects (index is 0-based).
AppendsCard(initial, index, count) ==
  initial \/ index >= count - projectsPerLoad

\* projectsToShow.forEach(...) appending cards to the grid, from index on.
RECURSIVE AppendCards(_, _, _, _, _)
AppendCards(grid, projectsToShow, index, initial, count) ==
  IF index >= Len(projectsToShow) THEN grid
  ELSE AppendCards(
         IF AppendsCard(initial, index, count)
           THEN Append(grid, projectsToShow[index + 1]) ELSE grid,
         projectsToShow, index + 1, initial, count)

\* loadMoreBtn.style.display = count >= projects.length ? 'none' : 'block'
LoadMoreStyle(count, total) == IF count >= total THEN "none" ELSE "block"

\* Mutant of LoadCodeProjectsGrid: the full reset does not clear the grid.
LoadCodeProjectsGrid_NoClear(grid, projects, count, initial) ==
  AppendCards(grid, Slice0(projects, count), 0, initial, count)

\* loadCodeProjects(initial): the grid after the call.
LoadCodeProjectsGrid(grid, projects, count, initial) ==
  AppendCards(IF initial THEN <<>> ELSE grid,
              Slice0(projects, count), 0, initial, count)

\* loadFeaturedArt: the featured grid after the call.
LoadFeaturedArtGrid(art) == Slice0(art.heroImages, 2)

Init ==
  /\ pc = "fetch"
  /\ artData = [heroImages |-> <<>>, artworks |-> <<>>]
  /\ projectData = [projects |-> <<>>]
  /\ displayedProjectCount = InitialDisplayedCount
  /\ loadMoreClicks = 0
  /\ codeGrid = <<>>
  /\ loadMoreDisplay = ""
  /\ featuredArtGrid = <<>>
  /\ linksUpdated = FALSE
  /\ heroAnimated = FALSE
  /\ galleryHidden = TRUE
  /\ fullGalleryGrid = <<>>
  /\ imageModalHidden = TRUE
  /\ currentLightboxIndex = 0
  /\ currentLightboxSource = <<>>
  /\ thumbnailStrip = <<>>
  /\ modalImgSrc = <<>>
  /\ bodyOverflow = ""
  /\ lastEvent = "DOMContentLoaded"

\* ------------------------------------------------------- data loader
\* await Promise.all([fetch, fetch, fetch]) resolves.
FetchAllResolve ==
  /\ pc = "fetch"
  /\ lastEvent' = "fetch"
  /\ pc' = "art"
  /\ UNCHANGED <<artData, projectData, featuredArtGrid, linksUpdated, heroAnimated,
                 pageVars, galleryVars, lightboxVars, bodyOverflow>>

\* One of the three fetches rejects: the catch block logs the error.
FetchReject ==
  /\ pc = "fetch"
  /\ lastEvent' = "fetchReject"
  /\ pc' = "failed"
  /\ UNCHANGED <<artData, projectData, featuredArtGrid, linksUpdated, heroAnimated,
                 pageVars, galleryVars, lightboxVars, bodyOverflow>>

\* artData = await artResponse.json()
ArtJsonOk ==
  /\ pc = "art"
  /\ lastEvent' = "artJson"
  /\ \E size \in ArtSizes : artData' = ArtJson(size[1], size[2])
  /\ pc' = "project"
  /\ UNCHANGED <<projectData, featuredArtGrid, linksUpdated, heroAnimated,
                 pageVars, galleryVars, lightboxVars, bodyOverflow>>

\* projectData = await projectResponse.json()
ProjectJsonOk ==
  /\ pc = "project"
  /\ lastEvent' = "projectJson"
  /\ \E n \in 0..MaxProjects : projectData' = ProjectJson(n)
  /\ pc' = "links"
  /\ UNCHANGED <<artData, featuredArtGrid, linksUpdated, heroAnimated,
                 pageVars, galleryVars, lightboxVars, bodyOverflow>>

\* const linksData = await linksResponse.json(); updateLinks(linksData);
\* loadCodeProjects(true); loadFeaturedArt(); animateHero();
LinksJsonOk ==
  /\ pc = "links"
  /\ lastEvent' = "linksJson"
  /\ linksUpdated' = TRUE
  /\ codeGrid' = LoadCodeProjectsGrid(codeGrid, projectData.projects,
                                      displayedProjectCount, TRUE)
  /\ loadMoreDisplay' = LoadMoreStyle(displayedProjectCount, Len(projectData.projects))
  /\ featuredArtGrid' = LoadFeaturedArtGrid(artData)
  /\ heroAnimated' = TRUE
  /\ pc' = "done"
  /\ UNCHANGED <<artData, projectData, displayedProjectCount, loadMoreClicks,
                 galleryVars, lightboxVars, bodyOverflow>>

\* response.json() rejects on one of the three bodies: the catch block logs.
JsonReject ==
  /\ pc \in {"art", "project", "links"}
  /\ lastEvent' = "jsonReject"
  /\ pc' = "failed"
  /\ UNCHANGED <<artData, projectData, featuredArtGrid, linksUpdated, heroAnimated,
                 pageVars, galleryVars, lightboxVars, bodyOverflow>>

\* ---------------------------------------------------------- load more
\* Mutant of NextDisplayedCount: the counter advances by one card, not one page.
NextDisplayedCount_ByOne(count) == count + 1

\* displayedProjectCount += projectsPerLoad
NextDisplayedCount(count) == count + projectsPerLoad

\* click on #loadMoreProjects
LoadMoreClick ==
  /\ loadMoreClicks < MaxClicks
  /\ lastEvent' = "loadMore"
  /\ loadMoreClicks' = loadMoreClicks + 1
  /\ displayedProjectCount' = NextDisplayedCount(displayedProjectCount)
  /\ codeGrid' = LoadCodeProjectsGrid(codeGrid, projectData.projects,
                                      displayedProjectCount', FALSE)
  /\ loadMoreDisplay' = LoadMoreStyle(displayedProjectCount', Len(projectData.projects))
  /\ UNCHANGED <<loadVars, galleryVars, lightboxVars, bodyOverflow>>

\* ------------------------------------------------------ gallery modal
\* Mutant of AllArt: the two arrays are spread in the other order.
AllArt_ArtworksFirst(art) == art.artworks \o art.heroImages

\* const allArt = [...artData.heroImages, ...artData.artworks]
AllArt(art) == art.heroImages \o art.artworks

\* allArt.forEach((art, index) => ...): one masonry item per element, whose
\* click listener closes over allArt and index.
GalleryItems(allArt) ==
  [k \in 1..Len(allArt) |-> [art |-> allArt[k], source |-> allArt, index |-> k - 1]]

\* click on #viewAllArt
ViewAllArtClick ==
  /\ lastEvent' = "viewAllArt"
  /\ fullGalleryGrid' = GalleryItems(AllArt(artData))
  /\ galleryHidden' = FALSE
  /\ bodyOverflow' = "hidden"
  /\ UNCHANGED <<loadVars, pageVars, lightboxVars>>

\* click on #galleryClose
GalleryCloseClick ==
  /\ lastEvent' = "galleryClose"
  /\ galleryHidden' = TRUE
  /\ bodyOverflow' = "auto"
  /\ UNCHANGED <<loadVars, pageVars, fullGalleryGrid, lightboxVars>>

\* ----------------------------------------------------------- lightbox
\* Mutant of MarkThumbnails: the previously active thumbnail is never unmarked.
MarkThumbnails_NeverUnmarks(strip, index) ==
  [k \in 1..Len(strip) |->
     [strip[k] EXCEPT !.active = (strip[k].active \/ k - 1 = index)]]

\* The forEach of updateLightboxContent over the .thumbnail elements.
MarkThumbnails(strip, index) ==
  [k \in 1..Len(strip) |-> [strip[k] EXCEPT !.active = (k - 1 = index)]]

\* generateThumbnails: the strip is rebuilt from the source.
GenerateThumbnails(source, index) ==
  [k \in 1..Len(source) |-> [item |-> source[k], index |-> k - 1,
                             active |-> (k - 1 = index)]]

\* The value of currentLightboxIndex when it is NaN (x % 0, and NaN + 1).
NaN == 0 - 1000

\* (currentLightboxIndex + 1) % currentLightboxSource.length
NextIndex(i, L) == IF i = NaN \/ L = 0 THEN NaN ELSE JsRem(i + 1, L)

\* Mutant of PrevIndex: the length is not added before taking the remainder.
PrevIndex_NoWrap(i, L) == IF i = NaN \/ L = 0 THEN NaN ELSE JsRem(i - 1, L)

\* (currentLightboxIndex - 1 + currentLightboxSource.length) % currentLightboxSource.length
PrevIndex(i, L) == IF i = NaN \/ L = 0 THEN NaN ELSE JsRem(i - 1 + L, L)

\* openLightbox(dataSource, index)
openLightbox(dataSource, index) ==
  /\ currentLightboxSource' = dataSource
  /\ currentLightboxIndex' = index
  /\ imageModalHidden' = FALSE
  /\ bodyOverflow' = "hidden"
  /\ modalImgSrc' = <<dataSource[index + 1].image>>
  /\ thumbnailStrip' = GenerateThumbnails(dataSource, index)
  /\ UNCHANGED <<loadVars, pageVars, galleryVars>>

\* currentLightboxIndex = index; updateLightboxContent().  When the source has
\* no item at index, item is undefined and `item.image` throws a TypeError
\* before the image and the thumbnails are touched.
showIndex(index) ==
  /\ currentLightboxIndex' = index
  /\ IF index \in 0..(Len(currentLightboxSource) - 1)
       THEN /\ modalImgSrc' = <<currentLightboxSource[index + 1].image>>
            /\ thumbnailStrip' = MarkThumbnails(thumbnailStrip, index)
       ELSE UNCHANGED <<modalImgSrc, thumbnailStrip>>
  /\ UNCHANGED <<loadVars, pageVars, galleryVars, imageModalHidden,
                 currentLightboxSource, bodyOverflow>>

closeLightbox ==
  /\ imageModalHidden' = TRUE
  /\ bodyOverflow' = "auto"
  /\ UNCHANGED <<loadVars, pageVars, galleryVars, currentLightboxIndex,
                 currentLightboxSource, thumbnailStrip, modalImgSrc>>

nextImage ==
  showIndex(NextIndex(currentLightboxIndex, Len(currentLightboxSource)))

prevImage ==
  showIndex(PrevIndex(currentLightboxIndex, Len(currentLightboxSource)))

\* click on the k-th masonry item of the gallery grid
GalleryItemClick(k) ==
  /\ lastEvent' = "galleryItem"
  /\ k \in 1..Len(fullGalleryGrid)
  /\ openLightbox(fullGalleryGrid[k].source, fullGalleryGrid[k].index)

\* click on the k-th thumbnail of the strip
ThumbnailClick(k) ==
  /\ lastEvent' = "thumbnail"
  /\ k \in 1..Len(thumbnailStrip)
  /\ showIndex(thumbnailStrip[k].index)

\* click on #modalNext / #modalPrev / #modalClose
ModalNextClick == lastEvent' = "modalNext" /\ nextImage
ModalPrevClick == lastEvent' = "modalPrev" /\ prevImage
ModalCloseClick == lastEvent' = "modalClose" /\ closeLightbox

\* click on the overlay itself (e.target === modal)
ModalBackgroundClick == lastEvent' = "modalBackground" /\ closeLightbox

Keys == {"Escape", "ArrowRight", "ArrowLeft", "Enter"}

\* Mutant of KeyDown: Escape is handled outside the open-lightbox gate.
KeyDown_EscapeUngated(key) ==
  /\ lastEvent' = key
  /\ IF key = "Escape" THEN closeLightbox
     ELSE IF ~imageModalHidden
       THEN IF key = "ArrowRight" THEN nextImage
            ELSE IF key = "ArrowLeft" THEN prevImage
            ELSE UNCHANGED progVars
       ELSE UNCHANGED progVars

\* document keydown listener
KeyDown(key) ==
  /\ lastEvent' = key
  /\ IF ~imageModalHidden
       THEN IF key = "Escape" THEN closeLightbox
            ELSE IF key = "ArrowRight" THEN nextImage
            ELSE IF key = "ArrowLeft" THEN prevImage
            ELSE UNCHANGED progVars
       ELSE UNCHANGED progVars

Next ==
  \/ FetchAllResolve
  \/ FetchReject
  \/ ArtJsonOk
  \/ ProjectJsonOk
  \/ LinksJsonOk
  \/ JsonReject
  \/ LoadMoreClick
  \/ ViewAllArtClick
  \/ GalleryCloseClick
  \/ \E k \in 1..(MaxHero + MaxArtworks) : GalleryItemClick(k)
  \/ \E k \in 1..(MaxHero + MaxArtworks) : ThumbnailClick(k)
  \/ ModalNextClick
  \/ ModalPrevClick
  \/ ModalCloseClick
  \/ ModalBackgroundClick
  \/ \E key \in Keys : KeyDown(key)

Spec == Init /\ [][Next]_vars

\* =================================================================
\* Properties
\* =================================================================
Total == Len(projectData.projects)
SourceLen == Len(currentLightboxSource)
\* The first n elements of a sequence.
Prefix(s, n) == [i \in 1..Min(n, Len(s)) |-> s[i]]
\* The count after the load-more activations handled so far.
CountAfterClicks == InitialDisplayedCount + projectsPerLoad * loadMoreClicks

\* C1: after N load-more activations, in any interleaving with the data load,
\* displayedProjectCount = 6 + 6N, and once the load has succeeded the grid
\* holds exactly projects [0, min(displayedProjectCount, total)), each once
\* and in catalog order.
C1_GridIsCatalogPrefix ==
  /\ displayedProjectCount = CountAfterClicks
  /\ pc = "done" => codeGrid = Prefix(projectData.projects, displayedProjectCount)

\* An incremental render after the load appended a partial last page.
C1_Witness ==
  /\ pc = "done"
  /\ lastEvent = "loadMore"
  /\ loadMoreClicks = 2
  /\ Total > 2 * projectsPerLoad
  /\ Len(codeGrid) = Total

\* C2 as stated: the initial full-reset render shows the first min(6, total)
\* projects and leaves the control visible iff total > 6, whatever UI events
\* were handled before the load completed.
C2_InitialRenderShowsSix ==
  lastEvent = "linksJson" =>
    /\ codeGrid = Prefix(projectData.projects, InitialDisplayedCount)
    /\ (loadMoreDisplay = "block") <=> (Total > InitialDisplayedCount)

\* C2 amended: the initial full-reset render shows the first
\* min(6 + 6N, total) projects, N being the load-more activations handled
\* before the load completed, and leaves the control visible iff
\* total > 6 + 6N; with 10 projects and N = 0, the first click after the load
\* completes the grid with items 6-9 and hides the control.
C2_InitialRenderShowsCount ==
  /\ lastEvent = "linksJson" =>
       /\ codeGrid = Prefix(projectData.projects, CountAfterClicks)
       /\ (loadMoreDisplay = "block") <=> (Total > CountAfterClicks)
       /\ loadMoreClicks = 0 =>
            /\ Len(codeGrid) = Min(InitialDisplayedCount, Total)
            /\ (loadMoreDisplay = "block") <=> (Total > InitialDisplayedCount)
  /\ (lastEvent = "loadMore" /\ pc = "done" /\ loadMoreClicks = 1 /\ Total = 10) =>
       /\ codeGrid = projectData.projects
       /\ loadMoreDisplay = "none"

\* The load completed after one load-more activation had been handled: all
\* 10 projects are rendered by the initial render and the control is hidden.
C2_Witness ==
  /\ lastEvent = "linksJson"
  /\ loadMoreClicks = 1
  /\ Total = 10
  /\ Len(codeGrid) = 10
  /\ loadMoreDisplay = "none"

\* C3: after every render pass (full reset or incremental) the load-more
\* control is hidden exactly when displayedProjectCount >= total, and
\* equivalently exactly when the number of rendered projects equals total.
C3_HiddenIffAllRendered ==
  lastEvent \in {"linksJson", "loadMore"} =>
    /\ (loadMoreDisplay = "none") <=> (displayedProjectCount >= Total)
    /\ (loadMoreDisplay = "block") <=> (displayedProjectCount < Total)
    /\ (loadMoreDisplay = "none") <=> (Len(codeGrid) = Total)

\* C4 as stated: displayedProjectCount starts at 6, moves only by +6 per
\* load-more activation, and is upper-bounded by the total project count
\* (the total being known once the load has succeeded).
C4_CountBoundedByTotal ==
  /\ displayedProjectCount = CountAfterClicks
  /\ pc = "done" => displayedProjectCount <= Total

\* C4 amended: displayedProjectCount starts at 6, changes only by +6 on a
\* load-more activation and never decreases; it is not clamped to the total,
\* what never exceeds the total is the number of rendered projects.
C4_CountStepsBySix ==
  [][ /\ lastEvent = "DOMContentLoaded" => displayedProjectCount = InitialDisplayedCount
      /\ displayedProjectCount' >= displayedProjectCount
      /\ lastEvent' = "loadMore" =>
           displayedProjectCount' = displayedProjectCount + projectsPerLoad
      /\ lastEvent' # "loadMore" => displayedProjectCount' = displayedProjectCount
      /\ Len(codeGrid') <= Len(projectData'.projects) ]_vars

\* A load-more activation after the load pushed the count past the total.
C4_Witness ==
  /\ pc = "done"
  /\ lastEvent = "loadMore"
  /\ displayedProjectCount > Total
  /\ Total > InitialDisplayedCount
  /\ Len(codeGrid) = Total

\* n applications of next to index i on a source of length L.
RECURSIVE IterateNext(_, _, _)
IterateNext(i, L, n) == IF n = 0 THEN i ELSE IterateNext(NextIndex(i, L), L, n - 1)

\* A step of nextImage / prevImage (button, or arrow key with the lightbox
\* open) on a source that has items.
NextEvent ==
  /\ SourceLen > 0
  /\ lastEvent' = "modalNext" \/ (lastEvent' = "ArrowRight" /\ ~imageModalHidden)
PrevEvent ==
  /\ SourceLen > 0
  /\ lastEvent' = "modalPrev" \/ (lastEvent' = "ArrowLeft" /\ ~imageModalHidden)

\* C5: for a source of length L the index stays in [0, L) under next,
\* previous (button or arrow key) and thumbnail clicks; next maps i to
\* (i + 1) mod L and previous maps i to (i - 1 + L) mod L, so previous undoes
\* next, L nexts return to the start, and for L = 1 the index is always 0.
C5_IndexCyclic ==
  [][ /\ SourceLen' > 0 => currentLightboxIndex' \in 0..(SourceLen' - 1)
      /\ NextEvent => currentLightboxIndex' = (currentLightboxIndex + 1) % SourceLen
      /\ PrevEvent =>
           currentLightboxIndex' = (currentLightboxIndex - 1 + SourceLen) % SourceLen
      /\ SourceLen > 0 =>
           /\ PrevIndex(NextIndex(currentLightboxIndex, SourceLen), SourceLen)
                = currentLightboxIndex
           /\ NextIndex(PrevIndex(currentLightboxIndex, SourceLen), SourceLen)
                = currentLightboxIndex
           /\ IterateNext(currentLightboxIndex, SourceLen, SourceLen)
                = currentLightboxIndex
      /\ SourceLen' = 1 => currentLightboxIndex' = 0 ]_vars

\* Previous from index 0 wrapped to the last item of the largest source.
C5_Witness ==
  /\ ~imageModalHidden
  /\ lastEvent \in {"modalPrev", "ArrowLeft"}
  /\ SourceLen = MaxHero + MaxArtworks
  /\ currentLightboxIndex = SourceLen - 1
  /\ thumbnailStrip[1].active = FALSE

\* While the lightbox is open: one thumbnail per source item, exactly the one
\* at the current index active, and the large image is the current item's.
LightboxConsistent ==
  ~imageModalHidden =>
    /\ Len(thumbnailStrip) = SourceLen
    /\ currentLightboxIndex \in 0..(SourceLen - 1)
    /\ \A k \in 1..Len(thumbnailStrip) :
         thumbnailStrip[k].active <=> (k - 1 = currentLightboxIndex)
    /\ Cardinality({k \in 1..Len(thumbnailStrip) : thumbnailStrip[k].active}) = 1
    /\ modalImgSrc = <<currentLightboxSource[currentLightboxIndex + 1].image>>

\* C6: opening the lightbox with (source, i) sets the current index to i, and
\* in every state while it is open the strip has length(source) thumbnails of
\* which exactly the one at the current index is active, and the large image
\* shown is source[current index].
C6_ActiveThumbnail ==
  [][ /\ LightboxConsistent
      /\ LightboxConsistent'
      /\ \A k \in 1..Len(fullGalleryGrid) :
           GalleryItemClick(k) =>
             /\ currentLightboxSource' = fullGalleryGrid[k].source
             /\ currentLightboxIndex' = fullGalleryGrid[k].index
             /\ ~imageModalHidden' ]_vars

\* A thumbnail click moved the active mark to the third of several thumbnails.
C6_Witness ==
  /\ ~imageModalHidden
  /\ lastEvent = "thumbnail"
  /\ SourceLen >= 3
  /\ currentLightboxIndex = 2
  /\ thumbnailStrip[3].active

\* C7: while the lightbox is closed a key press changes no state; while it is
\* open Escape closes it and ArrowRight / ArrowLeft perform next / previous.
C7_KeysGatedOnOpen ==
  [][ lastEvent' \in Keys =>
        IF imageModalHidden
          THEN UNCHANGED progVars
          ELSE /\ lastEvent' = "Escape" =>
                    /\ imageModalHidden'
                    /\ bodyOverflow' = "auto"
                    /\ UNCHANGED <<currentLightboxIndex, currentLightboxSource>>
               /\ lastEvent' = "ArrowRight" =>
                    /\ ~imageModalHidden'
                    /\ currentLightboxIndex' = (currentLightboxIndex + 1) % SourceLen
               /\ lastEvent' = "ArrowLeft" =>
                    /\ ~imageModalHidden'
                    /\ currentLightboxIndex' =
                         (currentLightboxIndex - 1 + SourceLen) % SourceLen ]_vars

\* Escape was pressed with the lightbox closed and the gallery open: the
\* page-scroll suppression set by the gallery is still in place.
C7_Witness ==
  /\ lastEvent = "Escape"
  /\ imageModalHidden
  /\ ~galleryHidden
  /\ bodyOverflow = "hidden"
  /\ SourceLen > 0

\* C8: every time the gallery is opened the grid holds heroImages followed by
\* artworks, one thumbnail per element in that order, and clicking the k-th
\* thumbnail opens the lightbox with that same sequence as source at index k.
C8_GalleryOrder ==
  [][ /\ lastEvent' = "viewAllArt" =>
           LET hero == artData.heroImages
               rest == artData.artworks
           IN /\ Len(fullGalleryGrid') = Len(hero) + Len(rest)
              /\ \A k \in 1..Len(fullGalleryGrid') :
                   fullGalleryGrid'[k].art =
                     IF k <= Len(hero) THEN hero[k] ELSE rest[k - Len(hero)]
      /\ \A k \in 1..Len(fullGalleryGrid) :
           GalleryItemClick(k) =>
             /\ currentLightboxIndex' = k - 1
             /\ currentLightboxSource' =
                  [j \in 1..Len(fullGalleryGrid) |-> fullGalleryGrid[j].art]
             /\ modalImgSrc' = <<fullGalleryGrid[k].art.image>> ]_vars

\* hero = [A, B, C], artworks = [D, E]: the lightbox opened from the gallery
\* and a next wrapped from E (index 4) to A (index 0).
C8_Witness ==
  /\ Len(artData.heroImages) = 3
  /\ Len(artData.artworks) = 2
  /\ Len(fullGalleryGrid) = 5
  /\ fullGalleryGrid[4].art = ArtworkItem(1)
  /\ ~imageModalHidden
  /\ currentLightboxSource = artData.heroImages \o artData.artworks
  /\ lastEvent = "modalNext"
  /\ currentLightboxIndex = 0
  /\ modalImgSrc = <<HeroItem(1).image>>

\* C9: the load is all-or-nothing: after any fetch or parse failure no
\* renderer has run, neither catalog has been replaced, and nothing loaded is
\* rendered then or by a later UI event (a gallery opened later is empty).
C9_LoadAllOrNothing ==
  pc = "failed" =>
    /\ artData = [heroImages |-> <<>>, artworks |-> <<>>]
    /\ projectData = [projects |-> <<>>]
    /\ ~linksUpdated
    /\ ~heroAnimated
    /\ codeGrid = <<>>
    /\ featuredArtGrid = <<>>
    /\ fullGalleryGrid = <<>>

\* C10: page scrolling is suppressed whenever the gallery modal or the
\* lightbox is open.
C10_ScrollLockedWhileOverlayOpen ==
  (~galleryHidden \/ ~imageModalHidden) => bodyOverflow = "hidden"
====
